---- MODULE Spec2Model ----
(***************************************************************************)
(* State-machine model of Monitoring.py: AdvancedPatientMonitor (history,  *)
(* symptom log, alert list, SQLite tables, e-mail sink) and the handlers   *)
(* of MonitoringGUI that drive it.                                         *)
(*                                                                         *)
(* Conventions.                                                            *)
(*  - A Python dict is a record; a dict that lacks a key is a record whose *)
(*    DOMAIN lacks the field.  measurement[k] on a missing key raises      *)
(*    KeyError, modelled by the "raised" field of the machine record.      *)
(*  - Temperatures are in tenths of a degree (38.0 is 380).                *)
(*  - datetime.now() is an input of every handler: the naive local wall    *)
(*    clock is not monotonic (DST fall-back, clock adjustment), so a later *)
(*    call may read an earlier value.  One handler run uses one reading.   *)
(*  - A symptom label is a tuple of one-character strings, so that         *)
(*    str.lower() is computed character by character.                      *)
(*  - The SQLite tables hold the rows inserted by this process.            *)
(***************************************************************************)
EXTENDS Integers, Sequences, FiniteSets, TLC

VARIABLES
    config,           \* self.config
    data,             \* self.data: one list per channel
    symptom_log,      \* self.symptom_log
    alerts,           \* self.alerts
    db_measurements,  \* table measurements
    db_symptoms,      \* table symptoms
    db_alerts,        \* table alerts
    sink_log,         \* what the SMTP sink saw: one entry per delivery attempt
    scheduled,        \* update_display is due (setup_gui, then root.after)
    last              \* the last call: its name, argument, results, exception
                      \* and what each evaluator it ran found in place

vars == <<config, data, symptom_log, alerts, db_measurements, db_symptoms,
          db_alerts, sink_log, scheduled, last>>

(***************************************************************************)
(* Bounds of the model.                                                    *)
(***************************************************************************)
MaxMeasurements == 2
MaxSymptoms == 1
MaxTime == 1

Times == 0..MaxTime

(***************************************************************************)
(* Configuration.                                                          *)
(***************************************************************************)
NoEmail == [enabled |-> FALSE, sender_email |-> "", recipient_emails |-> <<>>]

MakeConfig(spo2_low, window_size, forecast_hours, email) ==
    [alert_thresholds |-> [spo2_low |-> spo2_low,
                           heart_rate_high |-> 110,
                           respiratory_rate_high |-> 25,
                           temperature_high |-> 380],
     email_alerts |-> email,
     prediction_settings |-> [window_size |-> window_size,
                              forecast_hours |-> forecast_hours]]

\* load_config when config.json is absent
DefaultConfig == MakeConfig(92, 10, 6, NoEmail)

(***************************************************************************)
(* The mutable part of the monitor, threaded through the method operators. *)
(***************************************************************************)
EmptyData ==
    [timestamp |-> <<>>, spo2 |-> <<>>, heart_rate |-> <<>>,
     respiratory_rate |-> <<>>, temperature |-> <<>>, systolic_bp |-> <<>>,
     diastolic_bp |-> <<>>, symptoms |-> <<>>, activity_level |-> <<>>]

Cur ==
    [data |-> data, symptom_log |-> symptom_log, alerts |-> alerts,
     db_measurements |-> db_measurements, db_symptoms |-> db_symptoms,
     db_alerts |-> db_alerts, sink_log |-> sink_log, raised |-> "none",
     evaluated |-> <<>>]

Commit(s) ==
    /\ data' = s.data
    /\ symptom_log' = s.symptom_log
    /\ alerts' = s.alerts
    /\ db_measurements' = s.db_measurements
    /\ db_symptoms' = s.db_symptoms
    /\ db_alerts' = s.db_alerts
    /\ sink_log' = s.sink_log

Has(d, k) == k \in DOMAIN d

\* dict.get(k, default)
Get(d, k, default) == IF Has(d, k) THEN d[k] ELSE default

Raise(s, e) == [s EXCEPT !.raised = e]

\* An evaluator is entered on a subject: note how much of the history, the
\* symptom log and the two tables is in place at that moment.
Entered(s, evaluator, subject) ==
    [s EXCEPT !.evaluated = Append(@,
        [evaluator |-> evaluator, subject |-> subject,
         history |-> Len(s.data.spo2),
         rows |-> Len(s.db_measurements),
         logged |-> Len(s.symptom_log),
         symptom_rows |-> Len(s.db_symptoms)])]

(***************************************************************************)
(* Store inserts.                                                          *)
(***************************************************************************)
MeasurementKeys ==
    <<"time", "spo2", "heart_rate", "respiratory_rate", "activity_level">>

\* the first m[k] of the VALUES tuple that is missing raises before execute()
save_measurement(s, m) ==
    IF \E i \in 1..Len(MeasurementKeys) : ~Has(m, MeasurementKeys[i])
    THEN Raise(s, "KeyError")
    ELSE [s EXCEPT !.db_measurements = Append(@,
            [timestamp |-> m.time,
             spo2 |-> m.spo2,
             heart_rate |-> m.heart_rate,
             respiratory_rate |-> m.respiratory_rate,
             temperature |-> Get(m, "temperature", 0),
             systolic_bp |-> Get(m, "systolic_bp", 0),
             diastolic_bp |-> Get(m, "diastolic_bp", 0),
             activity_level |-> m.activity_level])]

save_symptom(s, entry) ==
    [s EXCEPT !.db_symptoms = Append(@,
        [timestamp |-> entry.timestamp, symptom |-> entry.symptom,
         severity |-> entry.severity, notes |-> entry.notes])]

\* Variant: an alert equal in type and message to a stored one is dropped.
save_alert_dedup(s, t, alert_type, message, severity) ==
    IF \E i \in 1..Len(s.alerts) :
          s.alerts[i].type = alert_type /\ s.alerts[i].message = message
    THEN s
    ELSE [s EXCEPT
            !.db_alerts = Append(@, [timestamp |-> t, alert_type |-> alert_type,
                                     message |-> message, severity |-> severity]),
            !.alerts = Append(@, [timestamp |-> t, type |-> alert_type,
                                  message |-> message, severity |-> severity])]

save_alert(s, t, alert_type, message, severity) ==
    [s EXCEPT
        !.db_alerts = Append(@, [timestamp |-> t, alert_type |-> alert_type,
                                 message |-> message, severity |-> severity]),
        !.alerts = Append(@, [timestamp |-> t, type |-> alert_type,
                              message |-> message, severity |-> severity])]

(***************************************************************************)
(* Alert dispatch.                                                         *)
(***************************************************************************)
SinkOutcomes == {"sent", "failed"}

\* Variant: no try/except around the SMTP exchange.
send_email_alert_raising(s, message, severity, outcome) ==
    IF config.email_alerts.sender_email = ""
       \/ config.email_alerts.recipient_emails = <<>>
    THEN s
    ELSE LET s1 == [s EXCEPT !.sink_log = Append(@,
                      [outcome |-> outcome, message |-> message,
                       severity |-> severity, stored |-> Len(s.db_alerts)])]
         IN IF outcome = "failed" THEN Raise(s1, "SMTPException") ELSE s1

\* The whole body is inside try/except Exception: a failing SMTP exchange is
\* printed and swallowed.  The sink log keeps, for each attempt, how many
\* alert rows the store held when the attempt was made.
send_email_alert(s, message, severity, outcome) ==
    IF config.email_alerts.sender_email = ""
       \/ config.email_alerts.recipient_emails = <<>>
    THEN s
    ELSE [s EXCEPT !.sink_log = Append(@,
            [outcome |-> outcome, message |-> message, severity |-> severity,
             stored |-> Len(s.db_alerts)])]

\* Variant: every alert is stored with the default severity of save_alert.
send_alert_flat(s, t, alert_type, message, outcome) ==
    LET s1 == save_alert(s, t, alert_type, message, "medium")
    IN IF config.email_alerts.enabled
       THEN send_email_alert(s1, message, "medium", outcome)
       ELSE s1

send_alert(s, t, alert_type, message, outcome) ==
    LET severity == IF alert_type = "exacerbation" THEN "high" ELSE "medium"
        s1 == save_alert(s, t, alert_type, message, severity)
    IN IF config.email_alerts.enabled
       THEN send_email_alert(s1, message, severity, outcome)
       ELSE s1

(***************************************************************************)
(* Measurement ingestion.                                                  *)
(***************************************************************************)
\* measurement = read_sensor_data(); measurement['time'] = datetime.now()
Stamp(reading, t) ==
    [time |-> t, spo2 |-> reading.spo2, heart_rate |-> reading.heart_rate,
     respiratory_rate |-> reading.respiratory_rate,
     temperature |-> reading.temperature,
     systolic_bp |-> reading.systolic_bp,
     diastolic_bp |-> reading.diastolic_bp,
     activity_level |-> reading.activity_level]

\* Variant: the activity level is not kept in the history.
AppendChannels_no_activity(d, m) ==
    [d EXCEPT !.timestamp = Append(@, m.time),
              !.spo2 = Append(@, m.spo2),
              !.heart_rate = Append(@, m.heart_rate),
              !.respiratory_rate = Append(@, m.respiratory_rate),
              !.temperature = Append(@, m.temperature),
              !.systolic_bp = Append(@, m.systolic_bp),
              !.diastolic_bp = Append(@, m.diastolic_bp)]

AppendChannels(d, m) ==
    [d EXCEPT !.timestamp = Append(@, m.time),
              !.spo2 = Append(@, m.spo2),
              !.heart_rate = Append(@, m.heart_rate),
              !.respiratory_rate = Append(@, m.respiratory_rate),
              !.temperature = Append(@, m.temperature),
              !.systolic_bp = Append(@, m.systolic_bp),
              !.diastolic_bp = Append(@, m.diastolic_bp),
              !.activity_level = Append(@, m.activity_level)]

\* Variant: a rolling window that evicts the oldest entry of every channel
\* once the history is longer than window_size.
simulate_measurement_evicting(s, reading, t) ==
    LET measurement == Stamp(reading, t)
        d == AppendChannels(s.data, measurement)
        n == config.prediction_settings.window_size
        kept == [k \in DOMAIN d |->
                    IF k # "symptoms" /\ Len(d[k]) > n THEN Tail(d[k]) ELSE d[k]]
    IN save_measurement([s EXCEPT !.data = kept], measurement)

simulate_measurement(s, reading, t) ==
    LET measurement == Stamp(reading, t)
    IN save_measurement([s EXCEPT !.data = AppendChannels(@, measurement)],
                        measurement)

(***************************************************************************)
(* Threshold rules of the GUI, in source order.  Each rule reads its field *)
(* first: a missing field raises KeyError and ends the handler there.      *)
(***************************************************************************)
Spo2Rule(s, t, m, outcome) ==
    IF s.raised # "none" THEN s
    ELSE IF ~Has(m, "spo2") THEN Raise(s, "KeyError")
    ELSE IF m.spo2 < config.alert_thresholds.spo2_low
         THEN send_alert(s, t, "spo2_low", <<"SpO2 basse", m.spo2>>, outcome)
         ELSE s

\* Variant: the heart-rate rule fires at the threshold too.
HeartRateRule_inclusive(s, t, m, outcome) ==
    IF s.raised # "none" THEN s
    ELSE IF ~Has(m, "heart_rate") THEN Raise(s, "KeyError")
    ELSE IF m.heart_rate >= config.alert_thresholds.heart_rate_high
         THEN send_alert(s, t, "heart_rate_high",
                         <<"Tachycardie", m.heart_rate>>, outcome)
         ELSE s

HeartRateRule(s, t, m, outcome) ==
    IF s.raised # "none" THEN s
    ELSE IF ~Has(m, "heart_rate") THEN Raise(s, "KeyError")
    ELSE IF m.heart_rate > config.alert_thresholds.heart_rate_high
         THEN send_alert(s, t, "heart_rate_high",
                         <<"Tachycardie", m.heart_rate>>, outcome)
         ELSE s

RespiratoryRateRule(s, t, m, outcome) ==
    IF s.raised # "none" THEN s
    ELSE IF ~Has(m, "respiratory_rate") THEN Raise(s, "KeyError")
    ELSE IF m.respiratory_rate > config.alert_thresholds.respiratory_rate_high
         THEN send_alert(s, t, "respiratory_rate_high",
                         <<"Tachypnee", m.respiratory_rate>>, outcome)
         ELSE s

TemperatureRule(s, t, m, outcome) ==
    IF s.raised # "none" THEN s
    ELSE IF ~Has(m, "temperature") THEN Raise(s, "KeyError")
    ELSE IF m.temperature > config.alert_thresholds.temperature_high
         THEN send_alert(s, t, "temperature_high",
                         <<"Fievre", m.temperature>>, outcome)
         ELSE s

\* outcomes[i] is what the sink does with the alert of rule i, if it is sent
check_measurement_alerts(s, t, m, outcomes) ==
    TemperatureRule(
        RespiratoryRateRule(
            HeartRateRule(
                Spo2Rule(Entered(s, "check_measurement_alerts", m),
                         t, m, outcomes[1]),
                t, m, outcomes[2]),
            t, m, outcomes[3]),
        t, m, outcomes[4])

(***************************************************************************)
(* Symptoms.                                                               *)
(***************************************************************************)
UpperCase == <<"A","B","C","D","E","F","G","H","I","J","K","L","M",
               "N","O","P","Q","R","S","T","U","V","W","X","Y","Z">>
LowerCase == <<"a","b","c","d","e","f","g","h","i","j","k","l","m",
               "n","o","p","q","r","s","t","u","v","w","x","y","z">>

LowerChar(c) ==
    IF \E i \in 1..Len(UpperCase) : UpperCase[i] = c
    THEN LowerCase[CHOOSE i \in 1..Len(UpperCase) : UpperCase[i] = c]
    ELSE c

\* str.lower()
Lower(label) == [i \in 1..Len(label) |-> LowerChar(label[i])]

RespiratorySymptoms ==
    { <<"e","s","s","o","u","f","f","l","e","m","e","n","t">>,
      <<"t","o","u","x">>,
      <<"f","a","t","i","g","u","e">> }

\* the literal of the SpO2 test in check_exacerbation
ExacerbationSpo2 == 92

check_exacerbation(s0, t, symptom_entry, outcome) ==
    LET s == Entered(s0, "check_exacerbation", symptom_entry)
    IN IF Len(s.data.spo2) > 0
       THEN LET latest_spo2 == s.data.spo2[Len(s.data.spo2)]
            IN IF /\ Lower(symptom_entry.symptom) \in RespiratorySymptoms
                  /\ symptom_entry.severity >= 7
                  /\ latest_spo2 < ExacerbationSpo2
               THEN send_alert(s, t, "exacerbation",
                               <<"Signes d'exacerbation possible">>, outcome)
               ELSE s
       ELSE s

log_symptom(s, t, symptom, severity, notes, outcome) ==
    LET entry == [timestamp |-> t, symptom |-> symptom,
                  severity |-> severity, notes |-> notes]
        s1 == [s EXCEPT !.symptom_log = Append(@, entry),
                        !.data.symptoms = Append(@, <<symptom, severity>>)]
    IN check_exacerbation(save_symptom(s1, entry), t, entry, outcome)

(***************************************************************************)
(* Trend forecast: LinearRegression().fit on x = 0..n-1, predict on        *)
(* x = n..n+hours-1.  The fitted line is computed in exact arithmetic:     *)
(*   line(x) = (Sy*D + N*(n*x - Sx)) / (n*D),                              *)
(*   D = n*Sxx - Sx^2,  N = n*Sxy - Sx*Sy,                                 *)
(* and for a single sample (D = 0) the least-norm fit is the constant y.   *)
(* Floating-point rounding of a value that lies exactly on the threshold   *)
(* is not modelled.                                                        *)
(***************************************************************************)
RECURSIVE SumSeq(_)
SumSeq(q) == IF q = <<>> THEN 0 ELSE q[1] + SumSeq(Tail(q))

\* q[-n:]  (q[-0:] is the whole list)
LastN(q, n) ==
    IF n = 0 \/ n >= Len(q) THEN q ELSE SubSeq(q, Len(q) - n + 1, Len(q))

\* line(x) < threshold, for the least-squares line through (i-1, ys[i])
LineBelow(ys, x, threshold) ==
    LET n == Len(ys)
        Sx == SumSeq([i \in 1..n |-> i - 1])
        Sxx == SumSeq([i \in 1..n |-> (i - 1) * (i - 1)])
        Sy == SumSeq(ys)
        Sxy == SumSeq([i \in 1..n |-> (i - 1) * ys[i]])
        D == n * Sxx - Sx * Sx
        N == n * Sxy - Sx * Sy
    IN IF D = 0
       THEN Sy < threshold * n
       ELSE Sy * D + N * (n * x - Sx) < threshold * n * D

\* the default of the parameter hours of predict_deterioration
DefaultHours == 6

\* Variant: the guard lets a history one sample short of window_size through.
predict_deterioration_short(s, hours) ==
    IF Len(s.data.spo2) + 1 < config.prediction_settings.window_size
    THEN "insufficient_data"
    ELSE LET spo2_data == LastN(s.data.spo2,
                                config.prediction_settings.window_size)
             n == Len(spo2_data)
         IN IF \E x \in n..(n + hours - 1) :
                   LineBelow(spo2_data, x, config.alert_thresholds.spo2_low)
            THEN "deterioration"
            ELSE "no_deterioration"

predict_deterioration(s, hours) ==
    IF Len(s.data.spo2) < config.prediction_settings.window_size
    THEN "insufficient_data"
    ELSE LET window_size == config.prediction_settings.window_size
             spo2_data == LastN(s.data.spo2, window_size)
             n == Len(spo2_data)
         IN IF \E x \in n..(n + hours - 1) :
                   LineBelow(spo2_data, x, config.alert_thresholds.spo2_low)
            THEN "deterioration"
            ELSE "no_deterioration"

(***************************************************************************)
(* Anomaly detection.  IsolationForest is a randomised library model: the  *)
(* number of the 10 rows it labels -1 is an input of the call.             *)
(***************************************************************************)
AnomalyWindow == 10

detect_anomalies(s, anomaly_count) ==
    IF Len(s.data.spo2) < AnomalyWindow
    THEN "insufficient_data"
    ELSE IF anomaly_count > 2 THEN "anomalies" ELSE "no_anomaly"

(***************************************************************************)
(* Report: rows of the period, then both analyses with their defaults.     *)
(***************************************************************************)
RowsSince(rows, since) == SelectSeq(rows, LAMBDA r : r.timestamp >= since)

generate_comprehensive_report(s, t, hours, anomaly_count) ==
    LET df == RowsSince(s.db_measurements, t - hours)
    IN IF df = <<>>
       THEN [report |-> "no_data", forecast |-> "-", anomaly |-> "-"]
       ELSE [report |-> "report",
             forecast |-> predict_deterioration(s, DefaultHours),
             anomaly |-> detect_anomalies(s, anomaly_count)]

(***************************************************************************)
(* Handlers as actions.                                                    *)
(***************************************************************************)
Ran(op, s) ==
    [op |-> op, arg |-> <<>>, report |-> "-", forecast |-> "-",
     anomaly |-> "-", raised |-> s.raised, evaluated |-> s.evaluated]

SimulateMeasurement(reading, t) ==
    LET s1 == simulate_measurement(Cur, reading, t)
    IN /\ Commit(s1)
       /\ last' = Ran("simulate_measurement", s1)
       /\ UNCHANGED <<config, scheduled>>

\* Variant: the alerts are checked on the reading before it is ingested.
take_measurement_check_first(reading, t, outcomes) ==
    LET s1 == check_measurement_alerts(Cur, t, Stamp(reading, t), outcomes)
        s2 == simulate_measurement(s1, reading, t)
    IN /\ Commit(s2)
       /\ last' = Ran("take_measurement", s2)
       /\ UNCHANGED <<config, scheduled>>

\* simulate_measurement, update_display_values, check_measurement_alerts
take_measurement(reading, t, outcomes) ==
    LET s1 == simulate_measurement(Cur, reading, t)
        s2 == check_measurement_alerts(s1, t, Stamp(reading, t), outcomes)
    IN /\ Commit(s2)
       /\ last' = Ran("take_measurement", s2)
       /\ UNCHANGED <<config, scheduled>>

\* the timer callback: take_measurement, then root.after re-arms the timer
\* (the re-arming line is not reached when take_measurement raises)
update_display(reading, t, outcomes) ==
    LET s1 == simulate_measurement(Cur, reading, t)
        s2 == check_measurement_alerts(s1, t, Stamp(reading, t), outcomes)
    IN /\ scheduled
       /\ Commit(s2)
       /\ last' = Ran("update_display", s2)
       /\ scheduled' = (s2.raised = "none")
       /\ UNCHANGED config

LogSymptom(symptom, severity, t, outcome) ==
    LET s1 == log_symptom(Cur, t, symptom, severity, "", outcome)
    IN /\ Commit(s1)
       /\ last' = Ran("log_symptom", s1)
       /\ UNCHANGED <<config, scheduled>>

\* Variant: a predicted deterioration is routed to send_alert.
PredictDeterioration_alerting(hours) ==
    LET r == predict_deterioration(Cur, hours)
        s1 == IF r = "deterioration"
              THEN send_alert(Cur, 0, "deterioration",
                              <<"Deterioration prevue">>, "sent")
              ELSE Cur
    IN /\ Commit(s1)
       /\ last' = [Ran("predict_deterioration", s1) EXCEPT !.forecast = r]
       /\ UNCHANGED <<config, scheduled>>

PredictDeterioration(hours) ==
    /\ last' = [Ran("predict_deterioration", Cur) EXCEPT
                    !.forecast = predict_deterioration(Cur, hours)]
    /\ UNCHANGED <<config, data, symptom_log, alerts, db_measurements,
                   db_symptoms, db_alerts, sink_log, scheduled>>

DetectAnomalies(anomaly_count) ==
    /\ last' = [Ran("detect_anomalies", Cur) EXCEPT
                    !.anomaly = detect_anomalies(Cur, anomaly_count)]
    /\ UNCHANGED <<config, data, symptom_log, alerts, db_measurements,
                   db_symptoms, db_alerts, sink_log, scheduled>>

\* generate_comprehensive_report(24) shown in a window
show_report(t, hours, anomaly_count) ==
    LET r == generate_comprehensive_report(Cur, t, hours, anomaly_count)
    IN /\ last' = [Ran("show_report", Cur) EXCEPT
                       !.report = r.report, !.forecast = r.forecast,
                       !.anomaly = r.anomaly]
       /\ UNCHANGED <<config, data, symptom_log, alerts, db_measurements,
                      db_symptoms, db_alerts, sink_log, scheduled>>

\* save_measurement called on a measurement dict
SaveMeasurement(m) ==
    LET s1 == save_measurement(Cur, m)
    IN /\ Commit(s1)
       /\ last' = [Ran("save_measurement", s1) EXCEPT !.arg = m]
       /\ UNCHANGED <<config, scheduled>>

\* check_measurement_alerts called on a measurement dict
CheckMeasurementAlerts(m, t, outcomes) ==
    LET s1 == check_measurement_alerts(Cur, t, m, outcomes)
    IN /\ Commit(s1)
       /\ last' = [Ran("check_measurement_alerts", s1) EXCEPT !.arg = m]
       /\ UNCHANGED <<config, scheduled>>

(***************************************************************************)
(* Inputs.                                                                 *)
(***************************************************************************)
Reading(spo2, heart_rate, respiratory_rate, temperature) ==
    [spo2 |-> spo2, heart_rate |-> heart_rate,
     respiratory_rate |-> respiratory_rate, temperature |-> temperature,
     systolic_bp |-> 120, diastolic_bp |-> 80, activity_level |-> "repos"]

AllSent == <<"sent", "sent", "sent", "sent">>

Toux == <<"t","o","u","x">>
TouxCapital == <<"T","o","u","x">>
FatigueUpper == <<"F","A","T","I","G","U","E">>
Essoufflement == <<"e","s","s","o","u","f","f","l","e","m","e","n","t">>
Migraine == <<"m","i","g","r","a","i","n","e">>

(***************************************************************************)
(* Construction: empty history, empty tables of a new patient file, and   *)
(* update_display due (setup_gui calls it, then it re-arms itself).        *)
(***************************************************************************)
InitWith(configs) ==
    /\ config \in configs
    /\ data = EmptyData
    /\ symptom_log = <<>>
    /\ alerts = <<>>
    /\ db_measurements = <<>>
    /\ db_symptoms = <<>>
    /\ db_alerts = <<>>
    /\ sink_log = <<>>
    /\ scheduled = TRUE
    /\ last = [op |-> "init", arg |-> <<>>, report |-> "-",
               forecast |-> "-", anomaly |-> "-", raised |-> "none",
               evaluated |-> <<>>]

(***************************************************************************)
(* Spec: measurements and symptoms ingested in any order, with a clock     *)
(* that may step back between two handlers.                                *)
(***************************************************************************)
SpecConfigs == {MakeConfig(92, 1, 1, NoEmail), DefaultConfig}

SpecReadings == {Reading(90, 120, 20, 370), Reading(98, 80, 20, 370)}

Init == InitWith(SpecConfigs)

Next ==
    \/ \E r \in SpecReadings, t \in Times :
          /\ Len(data.spo2) < MaxMeasurements
          /\ SimulateMeasurement(r, t)
    \/ \E r \in SpecReadings, t \in Times :
          /\ Len(data.spo2) < MaxMeasurements
          /\ take_measurement(r, t, AllSent)
    \/ \E t \in Times :
          /\ Len(symptom_log) < MaxSymptoms
          /\ LogSymptom(Toux, 8, t, "sent")

Spec == Init /\ [][Next]_vars

(***************************************************************************)
(* Properties of the history (checked under Spec).                         *)
(***************************************************************************)
Channels ==
    <<"spo2", "heart_rate", "respiratory_rate", "temperature",
      "systolic_bp", "diastolic_bp", "activity_level">>

Column(rows, k) == [i \in 1..Len(rows) |-> rows[i][k]]

NonDecreasing(q) == \A i \in 1..(Len(q) - 1) : q[i] <= q[i + 1]

Capacity == config.prediction_settings.window_size

C9_Original == NonDecreasing(data.timestamp)

(***************************************************************************)
(* SpecAlerts: the alert path, with the e-mail sink configured or not and  *)
(* each delivery attempt succeeding or failing.  The clock reads 0.        *)
(***************************************************************************)
MaxAlertRuns == 2
MaxAlertSymptoms == 1

EmailNoSender ==
    [enabled |-> TRUE, sender_email |-> "", recipient_emails |-> <<"dr">>]
EmailOn ==
    [enabled |-> TRUE, sender_email |-> "monitor", recipient_emails |-> <<"dr">>]

AlertConfigs ==
    {MakeConfig(92, 2, 1, NoEmail), MakeConfig(92, 2, 1, EmailNoSender),
     MakeConfig(92, 2, 1, EmailOn)}

AlertReadings ==
    {Reading(90, 120, 30, 385), Reading(90, 80, 20, 370),
     Reading(98, 80, 20, 370)}

AllFailed == <<"failed", "failed", "failed", "failed">>
FirstFailed == <<"failed", "sent", "sent", "sent">>

InitAlerts == InitWith(AlertConfigs)

NextAlerts ==
    \/ \E r \in AlertReadings, o \in {AllSent, AllFailed, FirstFailed} :
          /\ Len(data.spo2) < MaxAlertRuns
          /\ update_display(r, 0, o)
    \/ \E label \in {Toux, Migraine}, o \in SinkOutcomes :
          /\ Len(symptom_log) < MaxAlertSymptoms
          /\ LogSymptom(label, 8, 0, o)
    \/ PredictDeterioration(DefaultHours)
    \/ DetectAnomalies(0)
    \/ show_report(0, 0, 0)

SpecAlerts == InitAlerts /\ [][NextAlerts]_vars

(***************************************************************************)
(* Properties of the alert path (checked under SpecAlerts).                *)
(***************************************************************************)
RuleNames ==
    <<"spo2_low", "heart_rate_high", "respiratory_rate_high",
      "temperature_high">>

\* the table of rules: which condition a measurement meets
Fires(c, m, cfg) ==
    CASE c = "spo2_low" -> m.spo2 < cfg.alert_thresholds.spo2_low
      [] c = "heart_rate_high" ->
            m.heart_rate > cfg.alert_thresholds.heart_rate_high
      [] c = "respiratory_rate_high" ->
            m.respiratory_rate > cfg.alert_thresholds.respiratory_rate_high
      [] c = "temperature_high" ->
            m.temperature > cfg.alert_thresholds.temperature_high

FiredConditions(m, cfg) == SelectSeq(RuleNames, LAMBDA c : Fires(c, m, cfg))

\* the measurement at the end of the history d
Latest(d) ==
    [spo2 |-> d.spo2[Len(d.spo2)],
     heart_rate |-> d.heart_rate[Len(d.heart_rate)],
     respiratory_rate |-> d.respiratory_rate[Len(d.respiratory_rate)],
     temperature |-> d.temperature[Len(d.temperature)]]

\* the rule of check_exacerbation on an entry and a history, as coded
ExacerbationFinding(entry, d) ==
    /\ Len(d.spo2) > 0
    /\ Lower(entry.symptom) \in RespiratorySymptoms
    /\ entry.severity >= 7
    /\ d.spo2[Len(d.spo2)] < ExacerbationSpo2

\* this step appends exactly k alerts, to the table and to the list alike
AlertsGrowBy(k) ==
    /\ Len(alerts') = Len(alerts) + k
    /\ Len(db_alerts') = Len(db_alerts) + k
    /\ SubSeq(alerts', 1, Len(alerts)) = alerts
    /\ SubSeq(db_alerts', 1, Len(db_alerts)) = db_alerts
    /\ \A i \in 1..Len(alerts') :
          /\ alerts'[i].type = db_alerts'[i].alert_type
          /\ alerts'[i].message = db_alerts'[i].message

MeasurementOps == {"take_measurement", "update_display"}

FindingsOfMeasurementsAndSymptoms ==
    /\ last'.op \in MeasurementOps =>
          AlertsGrowBy(Len(FiredConditions(Latest(data'), config)))
    /\ last'.op = "log_symptom" =>
          AlertsGrowBy(IF ExacerbationFinding(
                              symptom_log'[Len(symptom_log')], data')
                       THEN 1 ELSE 0)
    /\ last'.op = "simulate_measurement" => AlertsGrowBy(0)

\* C2 as stated: every finding of the threshold rules, of the forecast
\* (deterioration predicted), of the anomaly detection (more than 2 outliers)
\* and of the exacerbation rule appends exactly one alert to the table and to
\* the list; a cycle without finding appends none.
C2_Original ==
    [][/\ FindingsOfMeasurementsAndSymptoms
       /\ last'.op \in {"predict_deterioration", "detect_anomalies",
                        "show_report"} =>
             AlertsGrowBy((IF last'.forecast = "deterioration" THEN 1 ELSE 0)
                          + (IF last'.anomaly = "anomalies" THEN 1 ELSE 0))]_vars

\* C2 as amended: every finding of the threshold rules and of the
\* exacerbation rule appends exactly one alert to the table and to the list,
\* without de-duplication, and a cycle that matches nothing appends none; the
\* forecast and the anomaly detection only return their result and append no
\* alert, whatever they find.
C2_OneAlertPerRuleFinding ==
    [][/\ FindingsOfMeasurementsAndSymptoms
       /\ last'.op \in {"predict_deterioration", "detect_anomalies",
                        "show_report"} => AlertsGrowBy(0)]_vars

\* two cycles matched the same rule with the same message and left two
\* alerts, and a predicted deterioration left none
C2_Witness ==
    /\ last.op = "predict_deterioration"
    /\ last.forecast = "deterioration"
    /\ Len(alerts) = 2
    /\ alerts[1].type = "spo2_low"
    /\ alerts[2].type = "spo2_low"
    /\ alerts[1].message = alerts[2].message
    /\ Len(db_alerts) = 2

\* C5: every alert of the table and of the list has severity "high" iff its
\* type is "exacerbation", and "medium" otherwise.
C5_SeverityFollowsType ==
    /\ \A i \in 1..Len(alerts) :
          /\ alerts[i].severity = "high" <=> alerts[i].type = "exacerbation"
          /\ alerts[i].severity = "medium" <=> alerts[i].type # "exacerbation"
    /\ \A i \in 1..Len(db_alerts) :
          /\ db_alerts[i].severity = "high"
                <=> db_alerts[i].alert_type = "exacerbation"
          /\ db_alerts[i].severity = "medium"
                <=> db_alerts[i].alert_type # "exacerbation"

\* an exacerbation alert and a threshold alert are both stored
C5_Witness ==
    /\ \E i \in 1..Len(db_alerts) :
          db_alerts[i].alert_type = "exacerbation" /\ alerts[i].severity = "high"
    /\ \E i \in 1..Len(db_alerts) :
          db_alerts[i].alert_type = "spo2_low" /\ alerts[i].severity = "medium"

\* C6: a failed delivery raises nothing to the caller of send_alert (the
\* handler ends without exception and the timer stays armed, so the next
\* event is processed); the alert of every delivery attempt, failed or not,
\* was in the table and in the list when the attempt was made and is still
\* there with the same message and severity.
C6_SinkFailureContained ==
    /\ last.raised = "none"
    /\ scheduled
    /\ \A i \in 1..Len(sink_log) :
          LET e == sink_log[i]
          IN /\ e.stored \in 1..Len(db_alerts)
             /\ e.stored \in 1..Len(alerts)
             /\ db_alerts[e.stored].message = e.message
             /\ db_alerts[e.stored].severity = e.severity
             /\ alerts[e.stored].message = e.message
             /\ alerts[e.stored].severity = e.severity

\* a delivery failed, the handler went on to store later alerts, and a
\* second measurement has been ingested and evaluated since
C6_Witness ==
    /\ Len(sink_log) >= 2
    /\ sink_log[1].outcome = "failed"
    /\ sink_log[1].stored < Len(db_alerts)
    /\ Len(data.spo2) = 2
    /\ last.op = "update_display"
    /\ sink_log[Len(sink_log)].stored = Len(db_alerts)

(***************************************************************************)
(* SpecThreshold: one handler run per measurement, over readings on each   *)
(* side of and on every threshold, under two configurations.               *)
(***************************************************************************)
MaxThresholdRuns == 1

ThresholdConfigs ==
    {DefaultConfig,
     [DefaultConfig EXCEPT !.alert_thresholds =
         [spo2_low |-> 94, heart_rate_high |-> 100,
          respiratory_rate_high |-> 20, temperature_high |-> 375]]}

ThresholdReadings ==
    {Reading(a, b, c, d) : a \in {91, 92, 93, 94}, b \in {100, 110, 111},
                           c \in {20, 25, 26}, d \in {375, 380, 381}}

InitThreshold == InitWith(ThresholdConfigs)

NextThreshold ==
    \E r \in ThresholdReadings :
       /\ Len(data.spo2) < MaxThresholdRuns
       /\ take_measurement(r, 0, AllSent)

SpecThreshold == InitThreshold /\ [][NextThreshold]_vars

AlertTypes(q) == [i \in 1..Len(q) |-> q[i].type]

\* C4: a measurement handler appends the alerts of exactly the conditions
\* the measurement meets, each judged on its own, in the order spo2_low,
\* heart_rate_high, respiratory_rate_high, temperature_high; spo2_low iff
\* spo2 < threshold, each *_high iff value > threshold.
C4_FiresExactlyTheMatchingRules ==
    [][last'.op \in MeasurementOps =>
          AlertTypes(SubSeq(alerts', Len(alerts) + 1, Len(alerts')))
             = FiredConditions(Latest(data'), config)]_vars

\* heart rate and respiratory rate equal to their thresholds fired nothing,
\* while spo2 below and temperature above theirs fired, in that order
C4_Witness ==
    /\ last.op = "take_measurement"
    /\ Len(data.spo2) = 1
    /\ data.heart_rate[1] = config.alert_thresholds.heart_rate_high
    /\ data.respiratory_rate[1] = config.alert_thresholds.respiratory_rate_high
    /\ data.spo2[1] < config.alert_thresholds.spo2_low
    /\ data.temperature[1] > config.alert_thresholds.temperature_high
    /\ AlertTypes(alerts) = <<"spo2_low", "temperature_high">>

(***************************************************************************)
(* SpecSymptom: symptoms logged against a short history, under the default *)
(* configuration and one with another SpO2 threshold.                      *)
(***************************************************************************)
MaxSymptomHistory == 2

SymptomConfigs == {DefaultConfig, MakeConfig(94, 10, 6, NoEmail)}

SymptomReadings ==
    {Reading(91, 80, 20, 370), Reading(93, 80, 20, 370),
     Reading(95, 80, 20, 370)}

SymptomLabels == {Toux, TouxCapital, FatigueUpper, Essoufflement, Migraine}

InitSymptom == InitWith(SymptomConfigs)

NextSymptom ==
    \/ \E r \in SymptomReadings :
          /\ Len(data.spo2) < MaxSymptomHistory
          /\ SimulateMeasurement(r, 0)
    \/ \E label \in SymptomLabels, severity \in {6, 7} :
          /\ Len(symptom_log) < MaxSymptoms
          /\ LogSymptom(label, severity, 0, "sent")

SpecSymptom == InitSymptom /\ [][NextSymptom]_vars

\* C3 as stated: log_symptom appends an exacerbation alert iff a measurement
\* exists, the lower-cased label is one of essoufflement, toux, fatigue, the
\* severity is at least 7 and the spo2 of the latest measurement is below the
\* configured thresholds.spo2_low; without measurement it does nothing of the
\* kind and raises nothing.
C3_Original ==
    [][last'.op = "log_symptom" =>
          LET entry == symptom_log'[Len(symptom_log')]
              fired == /\ Len(alerts') = Len(alerts) + 1
                       /\ alerts'[Len(alerts')].type = "exacerbation"
          IN /\ last'.raised = "none"
             /\ fired <=>
                   /\ Len(data.spo2) > 0
                   /\ Lower(entry.symptom) \in RespiratorySymptoms
                   /\ entry.severity >= 7
                   /\ data.spo2[Len(data.spo2)]
                         < config.alert_thresholds.spo2_low
             /\ ~fired => alerts' = alerts]_vars

(***************************************************************************)
(* SpecAnalytics: the forecast and the anomaly detection applied to        *)
(* histories of 0 to PadLen + MaxTail measurements.  The initial states    *)
(* are the monitor after simulate_measurement has ingested the history.    *)
(***************************************************************************)
MaxTail == 5
PadLen == 6

AnalyticSpo2 == {90, 94, 98}

\* the two histories the specification gives as examples
ExampleHistories == {<<98, 96, 94, 92, 90>>, <<98, 98, 98, 98, 98>>}

AnalyticHistories ==
    ExampleHistories
    \cup {[i \in 1..k |-> 98] \o tail :
             k \in {0, PadLen},
             tail \in UNION {[1..n -> AnalyticSpo2] : n \in 0..MaxTail}}

AnalyticConfigs ==
    {MakeConfig(92, 5, 3, NoEmail), MakeConfig(92, 2, 1, NoEmail),
     DefaultConfig}

EmptyMonitor ==
    [data |-> EmptyData, symptom_log |-> <<>>, alerts |-> <<>>,
     db_measurements |-> <<>>, db_symptoms |-> <<>>, db_alerts |-> <<>>,
     sink_log |-> <<>>, raised |-> "none", evaluated |-> <<>>]

RECURSIVE IngestAll(_, _)
IngestAll(s, q) ==
    IF q = <<>> THEN s
    ELSE IngestAll(simulate_measurement(s, Reading(q[1], 80, 20, 370), 0),
                   Tail(q))

InitAnalytics ==
    \E cfg \in AnalyticConfigs, history \in AnalyticHistories :
       LET s == IngestAll(EmptyMonitor, history)
       IN /\ config = cfg
          /\ data = s.data
          /\ symptom_log = s.symptom_log
          /\ alerts = s.alerts
          /\ db_measurements = s.db_measurements
          /\ db_symptoms = s.db_symptoms
          /\ db_alerts = s.db_alerts
          /\ sink_log = s.sink_log
          /\ scheduled = TRUE
          /\ last = Ran("simulate_measurement", s)

NextAnalytics ==
    \/ PredictDeterioration(DefaultHours)
    \/ \E c \in {0, 3} : DetectAnomalies(c)
    \/ \E c \in {0, 3} : show_report(0, 0, c)

SpecAnalytics == InitAnalytics /\ [][NextAnalytics]_vars

ForecastRan ==
    \/ last.op = "predict_deterioration"
    \/ last.op = "show_report" /\ last.report = "report"

AnomalyRan ==
    \/ last.op = "detect_anomalies"
    \/ last.op = "show_report" /\ last.report = "report"

\* C7: with fewer than window_size measurements the forecast returns the
\* insufficient-data result, with fewer than 10 the anomaly detection does;
\* neither raises, neither reports a finding.
C7_InsufficientData ==
    /\ last.raised = "none"
    /\ (ForecastRan /\ Len(data.spo2) < config.prediction_settings.window_size)
          => last.forecast = "insufficient_data"
    /\ (AnomalyRan /\ Len(data.spo2) < 10)
          => last.anomaly = "insufficient_data"

\* a report over 9 measurements with window_size 10: one short of both
C7_Witness ==
    /\ last.op = "show_report"
    /\ last.report = "report"
    /\ Len(data.spo2) = 9
    /\ config.prediction_settings.window_size = 10
    /\ last.forecast = "insufficient_data"
    /\ last.anomaly = "insufficient_data"

\* C8 as stated: with at least window_size samples, the forecast reports
\* deterioration iff the least-squares line through the last window_size
\* spo2 values (indices 0..window_size-1) is below thresholds.spo2_low at one
\* of the indices window_size..window_size+forecast_hours-1, forecast_hours
\* being the configured one.
C8_Original ==
    (ForecastRan /\ Len(data.spo2) >= config.prediction_settings.window_size)
       => LET w == config.prediction_settings.window_size
              f == config.prediction_settings.forecast_hours
          IN last.forecast = "deterioration"
                <=> \E x \in w..(w + f - 1) :
                       LineBelow(LastN(data.spo2, w), x,
                                 config.alert_thresholds.spo2_low)

(***************************************************************************)
(* SpecApi: save_measurement and check_measurement_alerts called on        *)
(* measurement dicts that may lack a key.                                  *)
(***************************************************************************)
MaxApiCalls == 2

MeasurementFields ==
    {"time", "spo2", "heart_rate", "respiratory_rate", "temperature",
     "systolic_bp", "diastolic_bp", "activity_level"}

Without(m, k) == [f \in (DOMAIN m) \ {k} |-> m[f]]

ApiMeasurements ==
    {Without(m, k) : m \in {Stamp(Reading(90, 120, 30, 385), 0),
                            Stamp(Reading(98, 80, 20, 370), 0)},
                     k \in MeasurementFields \cup {"-"}}

InitApi == InitWith({DefaultConfig})

NextApi ==
    \/ \E m \in ApiMeasurements :
          /\ Len(db_measurements) < MaxApiCalls
          /\ SaveMeasurement(m)
    \/ \E m \in ApiMeasurements :
          /\ Len(alerts) < MaxApiCalls
          /\ CheckMeasurementAlerts(m, 0, AllSent)

SpecApi == InitApi /\ [][NextApi]_vars

\* the keys each function reads without a default
RequiredBy(op) ==
    IF op = "save_measurement"
    THEN {MeasurementKeys[i] : i \in 1..Len(MeasurementKeys)}
    ELSE {"spo2", "heart_rate", "respiratory_rate", "temperature"}

\* C10 as stated: a measurement that lacks a required field is rejected: the
\* call raises, nothing is added to the history or to the measurement table,
\* and no alert is produced, not even for the fields that are present.
\* "Required" is read in the code's favour: the keys the called function
\* itself reads without a default.
C10_Original ==
    [][(/\ last'.op \in {"save_measurement", "check_measurement_alerts"}
        /\ \E k \in RequiredBy(last'.op) : ~Has(last'.arg, k))
          => /\ last'.raised # "none"
             /\ data' = data
             /\ db_measurements' = db_measurements
             /\ alerts' = alerts
             /\ db_alerts' = db_alerts]_vars

(***************************************************************************)
(* Order of ingestion and evaluation, checked under Spec.  A handler runs  *)
(* to completion on the one thread of the Tk main loop, so "before the     *)
(* next event" is the atomicity of an action; what a step leaves in        *)
(* last.evaluated says which evaluators ran in it and what they found      *)
(* already appended.                                                       *)
(***************************************************************************)
EvaluatedBy(l, evaluator) ==
    SelectSeq(l.evaluated, LAMBDA e : e.evaluator = evaluator)

\* row i of the history d, as the measurement dict it came from
MeasurementAt(d, i) ==
    [time |-> d.timestamp[i], spo2 |-> d.spo2[i],
     heart_rate |-> d.heart_rate[i],
     respiratory_rate |-> d.respiratory_rate[i],
     temperature |-> d.temperature[i], systolic_bp |-> d.systolic_bp[i],
     diastolic_bp |-> d.diastolic_bp[i],
     activity_level |-> d.activity_level[i]]

\* this step ingests one measurement
Ingests ==
    /\ Len(data'.spo2) = Len(data.spo2) + 1
    /\ Len(db_measurements') = Len(db_measurements) + 1

\* this step logs one symptom
Logs ==
    /\ Len(symptom_log') = Len(symptom_log) + 1
    /\ Len(db_symptoms') = Len(db_symptoms) + 1

\* the step ran the threshold rules once, on the measurement it ingested,
\* which was in the history and in the table when they ran
ThresholdsRanOnceOnIngested ==
    LET ran == EvaluatedBy(last', "check_measurement_alerts")
    IN /\ Len(ran) = 1
       /\ ran[1].history = Len(data'.spo2)
       /\ ran[1].rows = Len(db_measurements')
       /\ ran[1].subject = MeasurementAt(data', ran[1].history)
       /\ db_measurements'[ran[1].rows].spo2 = ran[1].subject.spo2

\* the step ran check_exacerbation once, on the entry it logged, which was
\* in the symptom log and in the table when it ran
CorrelatorRanOnceOnLogged ==
    LET ran == EvaluatedBy(last', "check_exacerbation")
    IN /\ Len(ran) = 1
       /\ ran[1].logged = Len(symptom_log')
       /\ ran[1].symptom_rows = Len(db_symptoms')
       /\ ran[1].subject = symptom_log'[ran[1].logged]
       /\ db_symptoms'[ran[1].symptom_rows].symptom = ran[1].subject.symptom

\* C11 as stated: every step that ingests a measurement runs the threshold
\* rules on it exactly once, after it is in the history and in the
\* measurement table; every step that logs a symptom runs the exacerbation
\* check on it, after it is in the symptom log and in the symptom table.
C11_Original ==
    [][/\ Len(data'.spo2) > Len(data.spo2) => ThresholdsRanOnceOnIngested
       /\ Len(symptom_log') > Len(symptom_log) => CorrelatorRanOnceOnLogged]_vars

\* C11 amended: take_measurement (and so update_display) ingests one
\* measurement and then runs the threshold rules exactly once, on that
\* measurement, already in the history and in the measurement table;
\* simulate_measurement called on its own ingests one measurement and runs
\* no evaluator; log_symptom logs one entry and then runs check_exacerbation
\* exactly once, on that entry, already in the symptom log and in the
\* symptom table.  No handler runs an evaluator on anything else.
C11_EvaluatedOnceAfterStored ==
    [][/\ last'.op \in MeasurementOps =>
            /\ Ingests
            /\ ThresholdsRanOnceOnIngested
            /\ Len(last'.evaluated) = 1
       /\ last'.op = "simulate_measurement" =>
            /\ Ingests
            /\ last'.evaluated = <<>>
       /\ last'.op = "log_symptom" =>
            /\ Logs
            /\ CorrelatorRanOnceOnLogged
            /\ Len(last'.evaluated) = 1]_vars

\* a second measurement has been taken and evaluated, with an alert, after a
\* symptom was logged and a first measurement ingested without evaluation
C11_Witness ==
    /\ last.op = "take_measurement"
    /\ Len(data.spo2) = 2
    /\ Len(symptom_log) = 1
    /\ Len(last.evaluated) = 1
    /\ last.evaluated[1].history = 2
    /\ Len(alerts) = 2

(***************************************************************************)
(* SpecFrame: the three analyses called between ingestions, on histories   *)
(* short and long enough for each of their results, with a report asked    *)
(* for at two clock readings.  Times are in hours: the initial history is  *)
(* of hour 0, the measurements taken afterwards are of a later hour.       *)
(***************************************************************************)
MaxFrameRuns == 1
MaxFrameSymptoms == 1

\* show_report asks for generate_comprehensive_report(24)
ReportHours == 24

\* the clock when the report is asked for: a day after time 0, and later
ReportTimes == {ReportHours, ReportHours + 1}

FrameConfigs == {MakeConfig(92, 2, 1, NoEmail), DefaultConfig}

FrameHistories ==
    {<<>>, <<98, 90>>,
     [i \in 1..AnomalyWindow |-> 98],
     [i \in 1..AnomalyWindow |-> IF i = AnomalyWindow THEN 90 ELSE 98]}

InitFrame ==
    \E cfg \in FrameConfigs, history \in FrameHistories :
       LET s == IngestAll(EmptyMonitor, history)
       IN /\ config = cfg
          /\ data = s.data
          /\ symptom_log = s.symptom_log
          /\ alerts = s.alerts
          /\ db_measurements = s.db_measurements
          /\ db_symptoms = s.db_symptoms
          /\ db_alerts = s.db_alerts
          /\ sink_log = s.sink_log
          /\ scheduled = TRUE
          /\ last = Ran("simulate_measurement", s)

NextFrame ==
    \/ \E r \in SpecReadings, t \in Times \ {0} :
          /\ Len(RowsSince(db_measurements, 1)) < MaxFrameRuns
          /\ take_measurement(r, t, AllSent)
    \/ \E t \in Times :
          /\ Len(symptom_log) < MaxFrameSymptoms
          /\ LogSymptom(Toux, 8, t, "sent")
    \/ PredictDeterioration(DefaultHours)
    \/ \E c \in {0, 3} : DetectAnomalies(c)
    \/ \E t \in ReportTimes, c \in {0, 3} : show_report(t, ReportHours, c)

SpecFrame == InitFrame /\ [][NextFrame]_vars

AnalyticOps == {"predict_deterioration", "detect_anomalies", "show_report"}

\* nothing the monitor keeps is changed by this step
NothingChanged ==
    UNCHANGED <<config, data, symptom_log, alerts, db_measurements,
                db_symptoms, db_alerts, sink_log>>

\* a monitor of which only the spo2 history is known
OnlySpo2 == [data |-> [spo2 |-> data.spo2]]

\* The number of rows IsolationForest labels -1 is the library's, an input
\* of the model: two results of the scorer are compared for whether it ran.
SameScorerOutcome(a, b) ==
    (a = "insufficient_data") <=> (b = "insufficient_data")

MeasurementChannels == <<"timestamp">> \o Channels

\* the measurement dict that table row r was saved from
SavedFrom(r) ==
    [time |-> r.timestamp, spo2 |-> r.spo2, heart_rate |-> r.heart_rate,
     respiratory_rate |-> r.respiratory_rate, temperature |-> r.temperature,
     systolic_bp |-> r.systolic_bp, diastolic_bp |-> r.diastolic_bp,
     activity_level |-> r.activity_level]

\* C13: under any interleaving of simulate_measurement (alone or in
\* take_measurement) and log_symptom, the eight channel lists have one
\* length, the number of rows of the measurement table, and index i of
\* every channel holds the value of the measurement saved as row i; a
\* log_symptom step leaves the eight lists as they are and a measurement
\* step makes each of them longer by one.
C13_ChannelsAligned ==
    /\ [](/\ \A i \in 1..Len(MeasurementChannels) :
               Len(data[MeasurementChannels[i]]) = Len(db_measurements)
          /\ \A i \in 1..Len(db_measurements) :
               MeasurementAt(data, i) = SavedFrom(db_measurements[i]))
    /\ [][/\ last'.op = "log_symptom" =>
               /\ \A i \in 1..Len(MeasurementChannels) :
                     data'[MeasurementChannels[i]] = data[MeasurementChannels[i]]
               /\ db_measurements' = db_measurements
               /\ Len(data'.symptoms) = Len(data.symptoms) + 1
          /\ last'.op \in MeasurementOps \cup {"simulate_measurement"} =>
               \A i \in 1..Len(MeasurementChannels) :
                  Len(data'[MeasurementChannels[i]])
                     = Len(data[MeasurementChannels[i]]) + 1]_vars

\* a symptom logged between two different measurements
C13_Witness ==
    /\ Len(data.spo2) = 2
    /\ Len(db_measurements) = 2
    /\ data.spo2[1] # data.spo2[2]
    /\ Len(symptom_log) = 1
    /\ symptom_log[1].timestamp = data.timestamp[2]
    /\ data.timestamp[1] < data.timestamp[2]

====
